---- MODULE Spec2Model ----
(***************************************************************************)
(* FullCoveragePathPlanner (src/src/full_coverage_path_planner.cpp):       *)
(*   parseGrid            - occupancy map -> coarse grid, scale, start tile *)
(*   parsePointlist2Plan  - visited tiles  -> waypoint list                 *)
(*                                                                         *)
(* Lengths are integers counted in units of 2^-21 m.  In that unit          *)
(* 100.0 * FLT_EPSILON (= 100 * 2^-23 m) is exactly 25, and the tile sizes  *)
(* and resolutions used here (0.5 m, 1 m, 2 m) are exact, as they are in a  *)
(* double.  Headings are counted in quarter turns (pi/2), not normalised:   *)
(* createQuaternionMsgFromYaw(-pi/2) and (3*pi/2) are different quaternions.*)
(***************************************************************************)
EXTENDS Integers, Sequences, FiniteSets, TLC

\* ---------------------------------------------------------------- bounds
\* tiles of the visit lists have coordinates 0..GridMax
GridMax == 2
\* longest visit list
MaxLen == 5
\* deepest turn-direction stack the coverage algorithm leaves behind
MaxStack == 2
\* longest visit list in a sequence of calls (SpecCalls)
MaxSeqLen == 3
\* largest costmap (fine cells per axis)
MaxCols == 3
MaxRows == 2

\* ---------------------------------------------------------------- units
UnitsPerMetre == 2^21

\* 100.0 * FLT_EPSILON, FLT_EPSILON = 2^-23
Tolerance == (100 * UnitsPerMetre) \div (2^23)

\* ---------------------------------------------------------------- state
VARIABLES
  \* planner instance
  tile_size_, grid_origin_,
  previous_goal_, previous_orientation_, turn_around_directions_,
  \* the running call of parsePointlist2Plan
  pc, start, goalpoints, plan, it, orientation,
  plan_entry, stack_entry, previous_entry,
  \* the last call of parseGrid
  cpp_costmap, grid_size, real_start, grid, scaled_start, yaw_start, ret

plannerVars == <<tile_size_, grid_origin_, previous_goal_, previous_orientation_,
                 turn_around_directions_>>
callVars == <<pc, start, goalpoints, plan, it, orientation, plan_entry, stack_entry,
              previous_entry>>
gridVars == <<cpp_costmap, grid_size, real_start, grid, scaled_start, yaw_start, ret>>
vars == <<plannerVars, callVars, gridVars>>

\* ---------------------------------------------------------------- headings
\* a yaw of n quarter turns, as createQuaternionMsgFromYaw(n * pi/2) stores it
Yaw(n) == [quarter |-> n, rem |-> <<0, 0>>]

\* std::atan2(dy, dx): exact quarter turns on the axes (atan2(-1, 0) is -pi/2),
\* any other angle is kept as the pair it was computed from
Atan2(dy, dx) ==
  IF dy = 0 /\ dx > 0 THEN Yaw(0)
  ELSE IF dx = 0 /\ dy > 0 THEN Yaw(1)
  ELSE IF dy = 0 /\ dx < 0 THEN Yaw(2)
  ELSE IF dx = 0 /\ dy < 0 THEN Yaw(0 - 1)
  ELSE [quarter |-> 0, rem |-> <<dy, dx>>]

\* cos and sin of the doubles 0, M_PI/2, M_PI, M_PI*1.5.  The large entries
\* stand for +-1; the small ones for the rounding residues 6.1e-17, -1.8e-16
\* (cos) and 1.2e-16 (sin), which are not 0 in a double.
cos == [q \in 0..3 |-> CASE q = 0 -> 1000000 [] q = 1 -> 6
                         [] q = 2 -> 0 - 1000000 [] q = 3 -> 0 - 18]
sin == [q \in 0..3 |-> CASE q = 0 -> 0 [] q = 1 -> 1000000
                         [] q = 2 -> 12 [] q = 3 -> 0 - 1000000]

\* enum dir
dir == [none |-> 0, right |-> 1, up |-> 2, left |-> 0 - 1, down |-> 0 - 2]

\* entries of turn_around_directions_
TurnDirections == {"eClockwise", "eCounterClockwise"}

Abs(n) == IF n < 0 THEN 0 - n ELSE n

\* ---------------------------------------------------------------- poses
Pose(frame, x, y, h) == [frame |-> frame, x |-> x, y |-> y, heading |-> h]

\* a default-constructed geometry_msgs::msg::PoseStamped
DefaultPose == Pose("", 0, 0, [quarter |-> 0, rem |-> <<0, 0>>])

\* it->x * tile_size_ + grid_origin_.x + tile_size_ * 0.5
TileCentre(i, origin) == i * tile_size_ + origin + tile_size_ \div 2

\* ---------------------------------------------------------------- the loop
\* dx_now + dy_now * 2
move_dir_now(gp, t) ==
  IF t = 1
    THEN (gp[2].x - gp[1].x) + (gp[2].y - gp[1].y) * 2
    ELSE (gp[t].x - gp[t - 1].x) + (gp[t].y - gp[t - 1].y) * 2

\* dx_next + dy_next * 2.  At the first tile dx_next and dy_next are not
\* assigned; at the last tile it_next is end() and is dereferenced: undef is
\* whatever those reads give.
move_dir_next(gp, t, undef) ==
  IF t = 1 THEN undef.x + undef.y * 2
  ELSE IF t = Len(gp) THEN (undef.x - gp[t].x) + (undef.y - gp[t].y) * 2
  ELSE (gp[t + 1].x - gp[t].x) + (gp[t + 1].y - gp[t].y) * 2

\* faulty variant: the direction test is left out
do_publish_noturn(gp, t, undef) == t = 1 \/ t = Len(gp)

\* move_dir_next != move_dir_now || it == begin() || it == --end()
do_publish(gp, t, undef) ==
  \/ move_dir_next(gp, t, undef) # move_dir_now(gp, t)
  \/ t = 1
  \/ t = Len(gp)

\* faulty variant: the heading of the step that leaves the tile
NewOrientation_next(gp, t, old) ==
  LET m == IF t < Len(gp)
             THEN (gp[t + 1].x - gp[t].x) + (gp[t + 1].y - gp[t].y) * 2
             ELSE move_dir_now(gp, t)
  IN CASE m = dir.right -> 0 [] m = dir.up -> 1 [] m = dir.left -> 2
       [] m = dir.down -> 3 [] OTHER -> old

\* switch (move_dir_now)
NewOrientation(gp, t, old) ==
  LET m == move_dir_now(gp, t)
  IN CASE m = dir.none -> old
       [] m = dir.right -> 0
       [] m = dir.up -> 1
       [] m = dir.left -> 2
       [] m = dir.down -> 3
       [] OTHER -> old

\* the test of the reversal branch
IsReversal(o, prev) ==
  \/ cos[o] = 0 - cos[prev] /\ cos[o] # 0
  \/ sin[o] = 0 - sin[prev] /\ sin[o] # 0

\* turn_around_directions_.back(); on an empty vector the read is undefined
Back(stack, undef_turn) == IF stack = <<>> THEN undef_turn ELSE stack[Len(stack)]

\* turn_around_directions_.pop_back(); an empty vector is taken to stay empty
PopBack(stack) == IF stack = <<>> THEN <<>> ELSE SubSeq(stack, 1, Len(stack) - 1)

\* faulty variant: previous_goal_ is not republished with the new heading
Republished_none(ls, t, o, undef_turn) ==
  IF t # 1 /\ IsReversal(o, ls.previous_orientation_)
    THEN IF Back(ls.turn_around_directions_, undef_turn) = "eClockwise"
           THEN <<[ls.previous_goal_ EXCEPT !.heading = Yaw(o - 1)]>>
           ELSE <<[ls.previous_goal_ EXCEPT !.heading = Yaw(o + 1)]>>
    ELSE <<>>

\* faulty variant: the test "it != goalpoints.begin()" is left out
Republished_atFirst(ls, t, o, undef_turn) ==
  (IF IsReversal(o, ls.previous_orientation_)
     THEN IF Back(ls.turn_around_directions_, undef_turn) = "eClockwise"
            THEN <<[ls.previous_goal_ EXCEPT !.heading = Yaw(o - 1)]>>
            ELSE <<[ls.previous_goal_ EXCEPT !.heading = Yaw(o + 1)]>>
     ELSE <<>>)
  \o <<[ls.previous_goal_ EXCEPT !.heading = Yaw(o)]>>

\* the previous_goal_ waypoints pushed before new_goal
Republished(ls, t, o, undef_turn) ==
  IF t # 1
    THEN (IF IsReversal(o, ls.previous_orientation_)
            THEN IF Back(ls.turn_around_directions_, undef_turn) = "eClockwise"
                   THEN <<[ls.previous_goal_ EXCEPT !.heading = Yaw(o - 1)]>>
                   ELSE <<[ls.previous_goal_ EXCEPT !.heading = Yaw(o + 1)]>>
            ELSE <<>>)
         \o <<[ls.previous_goal_ EXCEPT !.heading = Yaw(o)]>>
    ELSE <<>>

\* the stack after the tile
StackAfter(ls, t, o) ==
  IF t # 1 /\ IsReversal(o, ls.previous_orientation_)
    THEN PopBack(ls.turn_around_directions_)
    ELSE ls.turn_around_directions_

\* one iteration of the loop over goalpoints, on the loop state
\* ls = [plan, previous_goal_, previous_orientation_, turn_around_directions_,
\*       orientation]
TileStep(ls, gp, t, undef, undef_turn) ==
  IF ~do_publish(gp, t, undef) THEN ls
  ELSE
    LET o == NewOrientation(gp, t, ls.orientation)
        new_goal == Pose("map", TileCentre(gp[t].x, grid_origin_.x),
                         TileCentre(gp[t].y, grid_origin_.y), Yaw(o))
    IN [plan |-> ls.plan \o Republished(ls, t, o, undef_turn) \o <<new_goal>>,
        previous_goal_ |-> new_goal,
        previous_orientation_ |-> o,
        turn_around_directions_ |-> StackAfter(ls, t, o),
        orientation |-> o]

\* the branch for a list of exactly one tile
SingleTile(ls, gp) ==
  [ls EXCEPT !.plan = ls.plan \o
     <<Pose("map", TileCentre(gp[1].x, grid_origin_.x),
            TileCentre(gp[1].y, grid_origin_.y), Yaw(0))>>]

\* faulty variant: || for && in the tolerance test
AddStart_either(p, s) ==
  LET dy == p[1].y - s.y
      dx == p[1].x - s.x
  IN IF ~(Abs(dy) < Tolerance \/ Abs(dx) < Tolerance)
       THEN <<s, [s EXCEPT !.heading = Atan2(dy, dx)],
              [p[1] EXCEPT !.heading = Atan2(dy, dx)]>> \o p
       ELSE <<s>> \o p

\* faulty variant: the connector at the first waypoint's position is left out
AddStart_oneConnector(p, s) ==
  LET dy == p[1].y - s.y
      dx == p[1].x - s.x
  IN IF ~(Abs(dy) < Tolerance /\ Abs(dx) < Tolerance)
       THEN <<s, [s EXCEPT !.heading = Atan2(dy, dx)]>> \o p
       ELSE <<s>> \o p

\* "Add poses from current position to start of plan" and "Insert current pose"
AddStart(p, s) ==
  LET dy == p[1].y - s.y
      dx == p[1].x - s.x
  IN IF ~(Abs(dy) < Tolerance /\ Abs(dx) < Tolerance)
       THEN <<s, [s EXCEPT !.heading = Atan2(dy, dx)],
              [p[1] EXCEPT !.heading = Atan2(dy, dx)]>> \o p
       ELSE <<s>> \o p

\* the loop over goalpoints from tile t on; undefs[i] and undef_turns[i] are
\* what the undefined reads give at tile i
RECURSIVE RunLoop(_, _, _, _, _)
RunLoop(ls, gp, t, undefs, undef_turns) ==
  IF t > Len(gp) THEN ls
  ELSE RunLoop(TileStep(ls, gp, t, undefs[t], undef_turns[t]), gp, t + 1,
               undefs, undef_turns)

\* the loop state at entry: orientation = dir::none
EntryState(p, pg, po, stack) ==
  [plan |-> p, previous_goal_ |-> pg, previous_orientation_ |-> po,
   turn_around_directions_ |-> stack, orientation |-> dir.none]

\* parsePointlist2Plan(start, goalpoints, plan) as a whole, on a planner whose
\* fields are pg, po and stack
ParsePlan(s, gp, p, pg, po, stack, undefs, undef_turns) ==
  LET ls == EntryState(p, pg, po, stack)
  IN IF Len(gp) < 1 THEN ls
     ELSE LET body == IF Len(gp) = 1 THEN SingleTile(ls, gp)
                      ELSE RunLoop(ls, gp, 1, undefs, undef_turns)
          IN [body EXCEPT !.plan = AddStart(body.plan, s)]

\* ---------------------------------------------------------------- inputs
Tiles == [x : 0..GridMax, y : 0..GridMax]

Adjacent(a, b) == Abs(a.x - b.x) + Abs(a.y - b.y) = 1

Tile(x, y) == [x |-> x, y |-> y]

FirstTiles == {Tile(0, 0), Tile(1, 1)}

\* connected tile paths of at most n tiles
RECURSIVE Paths(_)
Paths(n) ==
  IF n <= 1 THEN {<<t>> : t \in FirstTiles}
  ELSE LET P == Paths(n - 1)
       IN P \cup {Append(pq[1], pq[2]) :
                    pq \in {c \in P \X Tiles :
                              /\ Len(c[1]) = n - 1
                              /\ Adjacent(c[1][n - 1], c[2])}}

\* lists the caller is not supposed to pass, which the code does not reject:
\* a tile repeated, a diagonal step, a step of two tiles
OddLists ==
  {<<Tile(0, 0), Tile(0, 0)>>,
   <<Tile(0, 0), Tile(0, 0), Tile(1, 0)>>,
   <<Tile(0, 0), Tile(1, 0), Tile(1, 0), Tile(0, 0)>>,
   <<Tile(0, 0), Tile(1, 1), Tile(2, 1)>>,
   <<Tile(0, 0), Tile(2, 0), Tile(2, 2)>>}

VisitLists == {<<>>} \cup Paths(MaxLen) \cup {l \in OddLists : Len(l) <= MaxLen}

\* what the reads of unassigned dx_next, dy_next and of *end() may give
UndefPoints == {Tile(1, 0), Tile(0 - 3, 7)}

\* dx_next, dy_next and *it_next are undefined at the first and the last tile
UndefPointsAt(gp, t) == IF t = 1 \/ t = Len(gp) THEN UndefPoints ELSE {Tile(0, 0)}

\* back() is undefined on an empty vector
UndefTurnsAt(stack) == IF stack = <<>> THEN TurnDirections ELSE {"eClockwise"}

\* the plan vector the caller passes in
PlansOnEntry == {<<>>, <<Pose("map", 0, 0, Yaw(2))>>}

\* start poses, placed relative to the first waypoint of the plan: on it,
\* inside the tolerance, on the tolerance (on either axis), and a tile away
StartOffsets ==
  {<<0, 0, 0>>, <<Tolerance - 1, 1 - Tolerance, 1>>, <<Tolerance, 0, 0>>,
   <<0, 0 - Tolerance, 3>>, <<0 - tile_size_, tile_size_, 2>>}

StartPoses(p, offsets) ==
  {Pose("map", p[1].x + o[1], p[1].y + o[2], Yaw(o[3])) : o \in offsets}

\* previous_goal_ and previous_orientation_ as the constructor or an earlier
\* call may have left them
PreviousStates ==
  {[goal |-> DefaultPose, orientation |-> 0],
   [goal |-> Pose("map", 7, 0 - 9, Yaw(2)), orientation |-> 2],
   [goal |-> Pose("map", 7, 0 - 9, Yaw(3)), orientation |-> 3]}

GridOrigin == [x |-> UnitsPerMetre \div 2, y |-> 0 - (UnitsPerMetre \div 4)]

NoCostmap == [n_rows |-> 0, n_cols |-> 0, resolution |-> UnitsPerMetre, data |-> <<>>]

GridIdle ==
  /\ cpp_costmap = NoCostmap
  /\ grid_size = 0
  /\ real_start = DefaultPose
  /\ grid = <<>>
  /\ scaled_start = Tile(0, 0)
  /\ yaw_start = 0
  /\ ret = "none"

\* ---------------------------------------------------------------- Spec
\* one planning request: the coverage algorithm fills the turn stack, then
\* parsePointlist2Plan runs tile by tile
Init ==
  /\ tile_size_ = 2 * UnitsPerMetre
  /\ grid_origin_ = GridOrigin
  /\ previous_goal_ = Pose("map", 7, 0 - 9, Yaw(2))
  /\ previous_orientation_ = 2
  /\ turn_around_directions_ = <<>>
  /\ pc = "idle"
  /\ start = DefaultPose
  /\ goalpoints = <<>>
  /\ plan = <<>>
  /\ it = 0
  /\ orientation = 0
  /\ plan_entry = <<>>
  /\ stack_entry = <<>>
  /\ previous_entry = [goal |-> DefaultPose, orientation |-> 0]
  /\ GridIdle

\* the coverage algorithm records the rotation sense of a turn-around
PushTurn ==
  /\ pc = "idle"
  /\ Len(turn_around_directions_) < MaxStack
  /\ \E d \in TurnDirections :
       turn_around_directions_' = Append(turn_around_directions_, d)
  /\ UNCHANGED <<tile_size_, grid_origin_, previous_goal_, previous_orientation_,
                 callVars, gridVars>>

\* entry of parsePointlist2Plan up to the loop.  The argument start is not
\* read before the connector code, and is drawn there.
EnterWith(lists, plans) ==
  /\ pc = "idle"
  /\ \E gp \in lists, p \in plans :
       /\ goalpoints' = gp
       /\ plan_entry' = p
       /\ IF Len(gp) < 1
            THEN plan' = p /\ pc' = "done"
            ELSE IF Len(gp) = 1
                   THEN /\ plan' = SingleTile(EntryState(p, previous_goal_,
                                      previous_orientation_,
                                      turn_around_directions_), gp).plan
                        /\ pc' = "connect"
                   ELSE plan' = p /\ pc' = "loop"
  /\ it' = 1
  /\ orientation' = dir.none
  /\ stack_entry' = turn_around_directions_
  /\ previous_entry' = [goal |-> previous_goal_, orientation |-> previous_orientation_]
  /\ UNCHANGED <<plannerVars, start, gridVars>>

Enter == EnterWith(VisitLists, PlansOnEntry)

\* one iteration of "for (it = goalpoints.begin(); ...)"
ProcessTile ==
  /\ pc = "loop"
  /\ \E undef \in UndefPointsAt(goalpoints, it),
        undef_turn \in UndefTurnsAt(turn_around_directions_) :
       LET ls == TileStep([plan |-> plan, previous_goal_ |-> previous_goal_,
                           previous_orientation_ |-> previous_orientation_,
                           turn_around_directions_ |-> turn_around_directions_,
                           orientation |-> orientation],
                          goalpoints, it, undef, undef_turn)
       IN /\ plan' = ls.plan
          /\ previous_goal_' = ls.previous_goal_
          /\ previous_orientation_' = ls.previous_orientation_
          /\ turn_around_directions_' = ls.turn_around_directions_
          /\ orientation' = ls.orientation
  /\ it' = it + 1
  /\ pc' = IF it = Len(goalpoints) THEN "connect" ELSE "loop"
  /\ UNCHANGED <<tile_size_, grid_origin_, start, goalpoints, plan_entry, stack_entry,
                 previous_entry, gridVars>>

\* the connector waypoints and the start pose, then return
ConnectWith(offsets) ==
  /\ pc = "connect"
  /\ \E s \in StartPoses(plan, offsets) :
       /\ start' = s
       /\ plan' = AddStart(plan, s)
  /\ pc' = "done"
  /\ UNCHANGED <<plannerVars, goalpoints, it, orientation, plan_entry,
                 stack_entry, previous_entry, gridVars>>

Connect == ConnectWith(StartOffsets)

Next == PushTurn \/ Enter \/ ProcessTile \/ Connect

Spec == Init /\ [][Next]_vars

\* ---------------------------------------------------------------- SpecCalls
\* a planner serving one request after another, each call of
\* parsePointlist2Plan running on the fields the last one left
CallLists ==
  {<<>>} \cup {l \in Paths(MaxSeqLen) \cup OddLists :
                Len(l) <= MaxSeqLen /\ l[1] = Tile(0, 0)}

\* the start on the first waypoint, and a tile away from it
CallStartOffsets == {<<0, 0, 0>>, <<0 - tile_size_, tile_size_, 2>>}

InitCalls ==
  /\ tile_size_ = 2 * UnitsPerMetre
  /\ grid_origin_ = GridOrigin
  /\ previous_goal_ = DefaultPose
  /\ previous_orientation_ \in {0, 3}
  /\ turn_around_directions_ = <<>>
  /\ pc = "idle"
  /\ start = DefaultPose
  /\ goalpoints = <<>>
  /\ plan = <<>>
  /\ it = 0
  /\ orientation = 0
  /\ plan_entry = <<>>
  /\ stack_entry = <<>>
  /\ previous_entry = [goal |-> DefaultPose, orientation |-> 0]
  /\ GridIdle

EnterCall == EnterWith(CallLists, {<<>>})

ConnectCall == ConnectWith(CallStartOffsets)

\* the call has returned and its arguments and locals are gone
Return ==
  /\ pc = "done"
  /\ pc' = "idle"
  /\ start' = DefaultPose
  /\ goalpoints' = <<>>
  /\ plan' = <<>>
  /\ it' = 0
  /\ orientation' = 0
  /\ plan_entry' = <<>>
  /\ stack_entry' = <<>>
  /\ previous_entry' = [goal |-> DefaultPose, orientation |-> 0]
  /\ UNCHANGED <<plannerVars, gridVars>>

NextCalls == PushTurn \/ EnterCall \/ ProcessTile \/ ConnectCall \/ Return

SpecCalls == InitCalls /\ [][NextCalls]_vars

\* the undefined reads of one call: dx_next, dy_next at the first tile, *end()
\* at the last, back() at every tile from the third on (no reversal is found
\* earlier)
UndefPointSeqs(gp) ==
  {[t \in 1..Len(gp) |-> IF t = 1 THEN a ELSE b] : a, b \in UndefPoints}

UndefTurnSeqs(gp) ==
  {[t \in 1..Len(gp) |-> IF t < 3 THEN "eClockwise" ELSE f[t]] :
     f \in [3..Len(gp) -> TurnDirections]}

\* ---------------------------------------------------------------- parseGrid
\* occupancy threshold (the macro is defined in the planner's header; only its
\* comparison with the cell cost is in this file)
COVERAGE_COST == 65

\* ceil(a / b) for a double quotient of positive lengths; not above 0 otherwise
Ceil(a, b) == IF a <= 0 THEN 0 ELSE (a + b - 1) \div b

dmax(a, b) == IF a > b THEN a ELSE b

clamp(v, lo, hi) == IF v < lo THEN lo ELSE IF v > hi THEN hi ELSE v

\* dmax(ceil(grid_size / cpp_costmap->getResolution()), 1)
NodeSize(gs, cm) == dmax(Ceil(gs, cm.resolution), 1)

\* Costmap2D::mapToWorld(0, 0, wx, wy): the centre of fine cell (0, 0)
MapToWorld00(cm) ==
  [x |-> cm.origin.x + cm.resolution \div 2, y |-> cm.origin.y + cm.resolution \div 2]

\* static_cast<unsigned int>(clamp((world - origin) / tile, 0.0,
\*                                 floor(cells / tile)))
\* with tile in metres in the last quotient, as the code has it.  The three
\* arguments of clamp are multiplied by the tile size to stay integers.
ScaleStart(world, origin, tile, cells) ==
  clamp(world - origin, 0, ((cells * UnitsPerMetre) \div tile) * tile) \div tile

\* tf2::Quaternion::getAngle() of a yaw of q quarter turns, in quarter turns
GetAngle(h) == Abs(h.quarter)

\* the loop over node_col: TRUE when it breaks on an occupied cell
RECURSIVE ScanCols(_, _, _, _, _)
ScanCols(cm, node_size, row, ix, node_col) ==
  IF node_col < node_size /\ ix + node_col < cm.n_cols
    THEN IF cm.data[row * cm.n_cols + (ix + node_col) + 1] > COVERAGE_COST
           THEN TRUE
           ELSE ScanCols(cm, node_size, row, ix, node_col + 1)
    ELSE FALSE

\* faulty variant: the scan of a tile stops after its first row
RECURSIVE ScanRows_firstRow(_, _, _, _, _, _)
ScanRows_firstRow(cm, node_size, iy, ix, node_row, node_occupied) ==
  IF node_row < 1 /\ iy + node_row < cm.n_rows /\ node_occupied = FALSE
    THEN ScanRows_firstRow(cm, node_size, iy, ix, node_row + 1,
                           ScanCols(cm, node_size, iy + node_row, ix, 0))
    ELSE node_occupied

\* the loop over node_row
RECURSIVE ScanRows(_, _, _, _, _, _)
ScanRows(cm, node_size, iy, ix, node_row, node_occupied) ==
  IF node_row < node_size /\ iy + node_row < cm.n_rows /\ node_occupied = FALSE
    THEN ScanRows(cm, node_size, iy, ix, node_row + 1,
                  ScanCols(cm, node_size, iy + node_row, ix, 0))
    ELSE node_occupied

\* the loop over ix
RECURSIVE GridRow(_, _, _, _, _)
GridRow(cm, node_size, iy, ix, grid_row) ==
  IF ix < cm.n_cols
    THEN GridRow(cm, node_size, iy, ix + node_size,
                 Append(grid_row, ScanRows(cm, node_size, iy, ix, 0, FALSE)))
    ELSE grid_row

\* the loop over iy
RECURSIVE ScaleGrid(_, _, _, _)
ScaleGrid(cm, node_size, iy, g) ==
  IF iy < cm.n_rows
    THEN ScaleGrid(cm, node_size, iy + node_size,
                   Append(g, GridRow(cm, node_size, iy, 0, <<>>)))
    ELSE g

\* cell costs: on the threshold and just above it
Costs == {COVERAGE_COST, COVERAGE_COST + 1}

\* 0.5 m, 1 m and 2 m per fine cell
Resolutions == {UnitsPerMetre \div 2, UnitsPerMetre, 2 * UnitsPerMetre}

\* requested tile edges of 1 m and 2 m
GridSizes == {UnitsPerMetre, 2 * UnitsPerMetre}

MapOrigin == [x |-> 0 - UnitsPerMetre, y |-> UnitsPerMetre \div 2]

Costmaps ==
  UNION {[n_rows : {r}, n_cols : {c}, resolution : Resolutions, origin : {MapOrigin},
          data : [1..(r * c) -> Costs]] : r \in 0..MaxRows, c \in 0..MaxCols}

\* start poses: outside below the map, in the first cell, on the far corner
\* of the map, in the last cell, and outside to the right
RealStarts(cm) ==
  LET w == cm.n_cols * cm.resolution
      h == cm.n_rows * cm.resolution
      q == cm.resolution \div 4
  IN {Pose("map", cm.origin.x - w - q, cm.origin.y - q, Yaw(1)),
      Pose("map", cm.origin.x + q, cm.origin.y + q, Yaw(0)),
      Pose("map", cm.origin.x + w, cm.origin.y + h, Yaw(0 - 1)),
      Pose("map", cm.origin.x + w - q, cm.origin.y + h - q, Yaw(2)),
      Pose("map", cm.origin.x + 2 * w + q, cm.origin.y + q, Yaw(3))}

InitGrid ==
  /\ tile_size_ = UnitsPerMetre
  /\ grid_origin_ = [x |-> 0, y |-> 0]
  /\ previous_goal_ = DefaultPose
  /\ previous_orientation_ = 0
  /\ turn_around_directions_ = <<>>
  /\ pc = "idle"
  /\ start = DefaultPose
  /\ goalpoints = <<>>
  /\ plan = <<>>
  /\ it = 0
  /\ orientation = 0
  /\ plan_entry = <<>>
  /\ stack_entry = <<>>
  /\ previous_entry = [goal |-> DefaultPose, orientation |-> 0]
  /\ cpp_costmap \in Costmaps
  /\ grid_size = 0
  /\ real_start = DefaultPose
  /\ grid = <<>>
  /\ scaled_start = Tile(0, 0)
  /\ yaw_start = 0
  /\ ret = "none"

\* parseGrid(cpp_costmap, grid, grid_size, real_start, scaled_start, yaw_start),
\* called once per planning request with the caller's empty grid
ParseGrid ==
  /\ ret = "none"
  /\ \E gs \in GridSizes, s \in RealStarts(cpp_costmap) :
       /\ grid_size' = gs
       /\ real_start' = s
       /\ IF cpp_costmap.n_rows = 0 \/ cpp_costmap.n_cols = 0
            THEN /\ ret' = "false"
                 /\ grid' = <<>>
                 /\ UNCHANGED <<tile_size_, grid_origin_, scaled_start, yaw_start>>
            ELSE \E node_size \in {NodeSize(gs, cpp_costmap)} :
                   \E tile \in {node_size * cpp_costmap.resolution} :
                     \E origin \in {MapToWorld00(cpp_costmap)} :
                       /\ grid_origin_' = origin
                       /\ tile_size_' = tile
                       /\ scaled_start' =
                            [x |-> ScaleStart(s.x, origin.x, tile,
                                              cpp_costmap.n_cols),
                             y |-> ScaleStart(s.y, origin.y, tile,
                                              cpp_costmap.n_rows)]
                       /\ yaw_start' = GetAngle(s.heading)
                       /\ grid' = ScaleGrid(cpp_costmap, node_size, 0, <<>>)
                       /\ ret' = "true"
  /\ UNCHANGED <<previous_goal_, previous_orientation_, turn_around_directions_,
                 callVars, cpp_costmap>>

NextGrid == ParseGrid

SpecGrid == InitGrid /\ [][NextGrid]_vars

\* ---------------------------------------------------------------- claims on Spec
\* direction code of the step from tile i to tile i + 1
StepCode(gp, i) == (gp[i + 1].x - gp[i].x) + 2 * (gp[i + 1].y - gp[i].y)

\* world position of the centre of a tile
CentreX(tile) == grid_origin_.x + tile.x * tile_size_ + tile_size_ \div 2
CentreY(tile) == grid_origin_.y + tile.y * tile_size_ + tile_size_ \div 2

AtCentre(w, tile) == w.x = CentreX(tile) /\ w.y = CentreY(tile)

Waypoint(tile, q) == Pose("map", CentreX(tile), CentreY(tile), Yaw(q))

\* C1: in a list of at least 2 tiles the iteration for index t appends a
\* waypoint at the centre of tile t if t is the first index, the last index, or
\* the direction codes of the steps into and out of tile t differ; for every
\* other index the plan is left as it is.
C1_EmittedIffEndOrTurn ==
  [][pc = "loop" =>
       IF \/ it = 1
          \/ it = Len(goalpoints)
          \/ StepCode(goalpoints, it - 1) # StepCode(goalpoints, it)
         THEN /\ Len(plan') > Len(plan)
              /\ SubSeq(plan', 1, Len(plan)) = plan
              /\ AtCentre(plan'[Len(plan')], goalpoints[it])
         ELSE plan' = plan]_vars

\* a tile in the middle of a straight run has been passed without a waypoint
C1_Witness ==
  /\ pc = "loop"
  /\ it = 3
  /\ StepCode(goalpoints, 1) = StepCode(goalpoints, 2)
  /\ plan_entry = <<>>
  /\ Len(plan) = 1

\* every step of the list is one tile along one axis
UnitSteps(gp) ==
  \A i \in 1..(Len(gp) - 1) :
    Abs(gp[i + 1].x - gp[i].x) + Abs(gp[i + 1].y - gp[i].y) = 1

\* the indices at which the direction changes
TurnIndices(gp) ==
  {k \in 2..(Len(gp) - 1) : StepCode(gp, k - 1) # StepCode(gp, k)}

\* the list has exactly one direction change, at index k
OneTurnAt(gp, k) == UnitSteps(gp) /\ TurnIndices(gp) = {k}

\* the turn at index k is a 180 degree reversal
ReversalAt(gp, k) == StepCode(gp, k) = 0 - StepCode(gp, k - 1)

Positions(p) == [i \in 1..Len(p) |-> <<p[i].x, p[i].y>>]

Centre(tile) == <<CentreX(tile), CentreY(tile)>>

\* C2 as stated: with exactly one direction change the loop leaves 3
\* tile-derived waypoints (first tile, turn point, last tile), or 4 when the
\* turn is a reversal, the fourth at the turn point.
C2_Original ==
  (pc = "connect" /\ plan_entry = <<>>) =>
    \A k \in 2..(Len(goalpoints) - 1) :
      OneTurnAt(goalpoints, k) =>
        LET first == Centre(goalpoints[1])
            turn == Centre(goalpoints[k])
            last == Centre(goalpoints[Len(goalpoints)])
        IN IF ReversalAt(goalpoints, k)
             THEN Positions(plan) = <<first, turn, turn, last>>
             ELSE Positions(plan) = <<first, turn, last>>

\* C2 amended: with exactly one direction change the loop leaves 5
\* tile-derived waypoints (the first tile, its position again, the turn point,
\* its position again, the last tile), or 6 when the turn is a reversal, the
\* additional one at the turn point.
C2_FiveOrSixWaypoints ==
  (pc = "connect" /\ plan_entry = <<>>) =>
    \A k \in 2..(Len(goalpoints) - 1) :
      OneTurnAt(goalpoints, k) =>
        LET first == Centre(goalpoints[1])
            turn == Centre(goalpoints[k])
            last == Centre(goalpoints[Len(goalpoints)])
        IN IF ReversalAt(goalpoints, k)
             THEN Positions(plan) = <<first, first, turn, turn, turn, last>>
             ELSE Positions(plan) = <<first, first, turn, turn, last>>

\* the loop has finished a list whose only turn is a reversal
C2_Witness ==
  /\ pc = "connect"
  /\ plan_entry = <<>>
  /\ \E k \in 2..(Len(goalpoints) - 1) :
       OneTurnAt(goalpoints, k) /\ ReversalAt(goalpoints, k)
  /\ Len(plan) = 6

C3List == <<Tile(0, 0), Tile(1, 0), Tile(2, 0), Tile(2, 1), Tile(2, 2)>>

C3Case ==
  /\ pc = "done"
  /\ goalpoints = C3List
  /\ plan_entry = <<>>
  /\ AtCentre(start, Tile(0, 0))

\* C3 as stated: the scenario gives 4 waypoints, the turn point (2,0) carrying
\* the heading of the direction that follows it.
C3_Original ==
  C3Case =>
    plan = <<start, Waypoint(Tile(0, 0), 0), Waypoint(Tile(2, 0), 1),
             Waypoint(Tile(2, 2), 1)>>

\* C3 amended: the scenario gives 6 waypoints: the start pose, (0,0) heading 0,
\* (0,0) heading 0 again, (2,0) heading 0, (2,0) heading pi/2, (2,2) heading
\* pi/2; no connector waypoints.
C3_SixWaypoints ==
  C3Case =>
    plan = <<start, Waypoint(Tile(0, 0), 0), Waypoint(Tile(0, 0), 0),
             Waypoint(Tile(2, 0), 0), Waypoint(Tile(2, 0), 1),
             Waypoint(Tile(2, 2), 1)>>

C3_Witness == C3Case /\ Len(plan) = 6 /\ plan[1] = start

\* |dx| and |dy| both below 100 * FLT_EPSILON
Colocated(a, b) == Abs(a.x - b.x) < Tolerance /\ Abs(a.y - b.y) < Tolerance

\* C4: with the plan empty on entry, the returned plan is the start pose,
\* then, exactly when the start is not colocated with the first tile-derived
\* waypoint, the start position and that waypoint's position, both with the
\* heading from the start to the waypoint, then the tile-derived waypoints
\* unchanged.
C4_StartPrefix ==
  [][(pc = "connect" /\ plan_entry = <<>>) =>
       LET yaw == Atan2(plan[1].y - start'.y, plan[1].x - start'.x)
       IN IF Colocated(start', plan[1])
            THEN plan' = <<start'>> \o plan
            ELSE plan' = <<start', Pose(start'.frame, start'.x, start'.y, yaw),
                           Pose(plan[1].frame, plan[1].x, plan[1].y, yaw)>>
                         \o plan]_vars

\* a start exactly the tolerance away on one axis got the two connectors
C4_Witness ==
  /\ pc = "done"
  /\ plan_entry = <<>>
  /\ Len(goalpoints) >= 2
  /\ plan[1] = start
  /\ Abs(plan[4].x - start.x) = Tolerance
  /\ plan[4].y = start.y
  /\ <<plan[2].x, plan[2].y>> = <<start.x, start.y>>
  /\ <<plan[3].x, plan[3].y>> = <<plan[4].x, plan[4].y>>
  /\ plan[2].heading = plan[3].heading

SamePosition(a, b) == a.x = b.x /\ a.y = b.y

\* C7 as stated: consecutive waypoints of a returned plan share their position
\* or share their heading.
C7_Original ==
  (pc = "done" /\ goalpoints # <<>> /\ plan_entry = <<>>) =>
    \A i \in 1..(Len(plan) - 1) :
      \/ SamePosition(plan[i], plan[i + 1])
      \/ plan[i].heading = plan[i + 1].heading

\* C7 amended: consecutive waypoints of a returned plan share their heading or
\* have positions within the colocation tolerance (100 * FLT_EPSILON on both
\* axes) of each other; apart from the pair (start pose, first tile-derived
\* waypoint) the positions are then equal.
C7_NoJump ==
  (pc = "done" /\ goalpoints # <<>> /\ plan_entry = <<>>) =>
    \A i \in 1..(Len(plan) - 1) :
      \/ SamePosition(plan[i], plan[i + 1])
      \/ plan[i].heading = plan[i + 1].heading
      \/ i = 1 /\ Colocated(plan[1], plan[2])

\* a returned plan with connectors, a reversal and a translation
C7_Witness ==
  /\ pc = "done"
  /\ plan_entry = <<>>
  /\ Len(goalpoints) >= 3
  /\ ~Colocated(plan[1], plan[3])
  /\ \E i \in 4..(Len(plan) - 3) :
       /\ SamePosition(plan[i], plan[i + 1])
       /\ SamePosition(plan[i + 1], plan[i + 2])
       /\ plan[i].heading # plan[i + 1].heading
       /\ plan[i + 1].heading # plan[i + 2].heading
       /\ ~SamePosition(plan[i + 2], plan[i + 3])

\* C8 as stated: at a published tile that is not the first, exactly when the
\* new heading is opposite to the previously emitted one, one waypoint is
\* added at the previous position with heading new - 90 degrees if the top of
\* the turn stack is clockwise and new + 90 degrees otherwise, and that top
\* entry is removed; the previous position is then republished with the new
\* heading, then the new waypoint; without a reversal the stack is unchanged.
C8_Original ==
  [][(pc = "loop" /\ it # 1 /\ plan' # plan) =>
       LET new == plan'[Len(plan')]
           o == new.heading.quarter
           stack == turn_around_directions_
           added == SubSeq(plan', Len(plan) + 1, Len(plan'))
           turned == [previous_goal_ EXCEPT !.heading = Yaw(o)]
       IN IF (o - previous_orientation_) % 4 = 2
            THEN /\ stack # <<>>
                 /\ added = <<[previous_goal_ EXCEPT !.heading =
                                 IF stack[Len(stack)] = "eClockwise"
                                   THEN Yaw(o - 1) ELSE Yaw(o + 1)],
                              turned, new>>
                 /\ turn_around_directions_' = SubSeq(stack, 1, Len(stack) - 1)
            ELSE /\ added = <<turned, new>>
                 /\ turn_around_directions_' = stack]_vars

\* ---------------------------------------------------------------- claims on SpecCalls
\* C9: the plan a call returns is the plan the same call returns from any
\* other previous_goal_ and previous_orientation_, given the same arguments,
\* the same turn stack at entry and the same outcome of the undefined reads.
C9_PreviousNeverRead ==
  pc = "done" =>
    \E undefs \in UndefPointSeqs(goalpoints), undef_turns \in UndefTurnSeqs(goalpoints) :
      /\ ParsePlan(start, goalpoints, plan_entry, previous_entry.goal,
                   previous_entry.orientation, stack_entry, undefs, undef_turns).plan
           = plan
      /\ \A other \in PreviousStates :
           ParsePlan(start, goalpoints, plan_entry, other.goal, other.orientation,
                     stack_entry, undefs, undef_turns).plan = plan

\* a call on 2 or more tiles has returned on a planner whose last emitted
\* heading, left by an earlier call, is opposite to this call's first heading
C9_Witness ==
  /\ pc = "done"
  /\ Len(goalpoints) >= 2
  /\ previous_entry.goal # DefaultPose
  /\ previous_entry.orientation = 2
  /\ Colocated(start, plan[2])
  /\ AtCentre(plan[2], goalpoints[1])
  /\ plan[2].heading = Yaw(0)
  /\ previous_goal_ # previous_entry.goal

\* ---------------------------------------------------------------- claims on SpecGrid
\* the fine cells of tile (ix, iy), clipped to the map
Footprint(cm, node_size, ix, iy) ==
  {rc \in (0..(cm.n_rows - 1)) \X (0..(cm.n_cols - 1)) :
     /\ iy * node_size <= rc[1] /\ rc[1] < (iy + 1) * node_size
     /\ ix * node_size <= rc[2] /\ rc[2] < (ix + 1) * node_size}

GridColumns == IF grid = <<>> THEN 0 ELSE Len(grid[1])

\* C5: a tile of the grid parseGrid built is occupied exactly when some fine
\* cell of its clipped footprint costs more than the threshold.
C5_OccupiedIffAnyCell ==
  ret = "true" =>
    LET node_size == NodeSize(grid_size, cpp_costmap)
    IN /\ Len(grid) * node_size >= cpp_costmap.n_rows
       /\ (Len(grid) - 1) * node_size < cpp_costmap.n_rows
       /\ \A iy \in 0..(Len(grid) - 1) :
            /\ Len(grid[iy + 1]) * node_size >= cpp_costmap.n_cols
            /\ (Len(grid[iy + 1]) - 1) * node_size < cpp_costmap.n_cols
            /\ \A ix \in 0..(Len(grid[iy + 1]) - 1) :
                 grid[iy + 1][ix + 1] <=>
                   \E rc \in Footprint(cpp_costmap, node_size, ix, iy) :
                     cpp_costmap.data[rc[1] * cpp_costmap.n_cols + rc[2] + 1]
                       > COVERAGE_COST

\* tile (0, 0) is occupied only by a cell of its second row
C5_Witness ==
  /\ ret = "true"
  /\ NodeSize(grid_size, cpp_costmap) = 2
  /\ cpp_costmap.n_rows = 2
  /\ cpp_costmap.n_cols = 3
  /\ grid = <<<<TRUE, FALSE>>>>
  /\ cpp_costmap.data[1] <= COVERAGE_COST
  /\ cpp_costmap.data[2] <= COVERAGE_COST

\* C6 as stated: the centre of every tile of the grid scales back to the tile.
C6_Original ==
  ret = "true" =>
    \A iy \in 0..(Len(grid) - 1) : \A ix \in 0..(GridColumns - 1) :
      /\ ScaleStart(grid_origin_.x + ix * tile_size_ + tile_size_ \div 2,
                    grid_origin_.x, tile_size_, cpp_costmap.n_cols) = ix
      /\ ScaleStart(grid_origin_.y + iy * tile_size_ + tile_size_ \div 2,
                    grid_origin_.y, tile_size_, cpp_costmap.n_rows) = iy

\* C10 as stated: the scaled start is an index of the grid.
C10_Original ==
  ret = "true" =>
    /\ 0 <= scaled_start.x /\ scaled_start.x < GridColumns
    /\ 0 <= scaled_start.y /\ scaled_start.y < Len(grid)

====
